---- MODULE Spec2Model ----
(***************************************************************************)
(* MaciRLA real-data cost analysis (maci-test/experiments/                 *)
(* real-data-analysis.py): the sampling-size algorithm, the per-dispute    *)
(* analysis and the aggregation built on it.                               *)
(*                                                                         *)
(* Percentages the program rounds to one decimal are carried as integers   *)
(* in tenths (15.6 is 156); consensus_rate rounded to four decimals is     *)
(* carried in ten-thousandths.  An input consensus rate is a pair          *)
(* <<num, den>> standing for the double nearest to num/den.  The program   *)
(* Amounts in USD rounded to two decimals are carried in cents.  The        *)
(* program rounds binary floating-point values: a value that lies exactly  *)
(* on a rounding tie is rounded the way its double falls, the double being *)
(* computed operation by operation as the program computes it.             *)
(***************************************************************************)
EXTENDS Integers, Sequences, FiniteSets, TLC

(* ---- bounds of the model ---------------------------------------------- *)
MaxMargin == 10
MaxVotes == 1
MaxBatches == 6
MaxVoters == 24
MaxPipelineVoters == 4
MaxRecords == 3
MaxHistRecords == 2

(* ---- program constants ------------------------------------------------ *)
CONFIDENCE_X1000 == 2996
PM_BATCH_SIZE == 5
TV_BATCH_SIZE == 2
PM_PROOF_GAS == 474492
TV_PROOF_GAS == 402099
MACI_FIXED_GAS == 7893819
MACIRLA_FIXED_GAS == 7000000
GAS_PRICE_GWEI == 30
ETH_PRICE_USD == 3000
\* 1e9 and 1e18, whole doubles, as products of factors below 2^18
WEI_PER_GWEI == [f |-> <<5 ^ 6, 5 ^ 3>>, e |-> 9]
WEI_PER_ETH == [f |-> <<5 ^ 6, 5 ^ 6, 5 ^ 6>>, e |-> 18]

(* ---- integer helpers -------------------------------------------------- *)
Min(a, b) == IF a <= b THEN a ELSE b

\* math.ceil(a / b) on non-negative a and positive b
CeilDiv(a, b) == (a + b - 1) \div b

\* round(num / den) of a quotient held exactly: an exact half goes to the even
\* neighbour
RoundHalfEven(num, den) ==
  LET q == num \div den
      r == num % den
  IN  IF 2 * r < den THEN q
      ELSE IF 2 * r > den THEN q + 1
      ELSE IF q % 2 = 0 THEN q ELSE q + 1

RECURSIVE BitLen(_)
BitLen(x) == IF x = 0 THEN 0 ELSE 1 + BitLen(x \div 2)

\* <<q, r>> with a * k = q * d + r and 0 <= r < d, without forming a * k
RECURSIVE MulDivMod(_, _, _)
MulDivMod(a, k, d) ==
  IF k = 0 THEN <<0, 0>>
  ELSE LET p == MulDivMod(a, k - 1, d)
           s == p[2] + (a % d)
       IN  IF s >= d THEN <<p[1] + (a \div d) + 1, s - d>>
           ELSE <<p[1] + (a \div d), s>>

\* <<q, r>> with part * 1000 = q * whole + r: part / whole * 100 in tenths
PctParts(part, whole) ==
  LET d1 == MulDivMod(part, 10, whole)
      d2 == MulDivMod(d1[2], 10, whole)
      d3 == MulDivMod(d2[2], 10, whole)
  IN  <<(d1[1] * 10 + d2[1]) * 10 + d3[1], d3[2]>>

(* ---- natural numbers of any size -------------------------------------- *)
\* A natural number is the sequence of its digits in base Limb, the least
\* significant first and the most significant not 0: << >> is 0.
Limb == 2 ^ 13
LimbBits == BitLen(Limb - 1)

Digit(a) == IF a = << >> THEN 0 ELSE a[1]
Rest(a) == IF a = << >> THEN << >> ELSE Tail(a)

RECURSIVE Trim(_)
Trim(a) == IF a # << >> /\ a[Len(a)] = 0 THEN Trim(SubSeq(a, 1, Len(a) - 1)) ELSE a

RECURSIVE Big(_)
Big(n) == IF n = 0 THEN << >> ELSE <<n % Limb>> \o Big(n \div Limb)

RECURSIVE BigToInt(_)
BigToInt(a) == IF a = << >> THEN 0 ELSE a[1] + Limb * BigToInt(Tail(a))

\* a + b + c, c a carry
RECURSIVE AddC(_, _, _)
AddC(a, b, c) ==
  IF a = << >> /\ b = << >> THEN Big(c)
  ELSE LET s == Digit(a) + Digit(b) + c
       IN  <<s % Limb>> \o AddC(Rest(a), Rest(b), s \div Limb)
BigAdd(a, b) == AddC(a, b, 0)

\* a - b - c for a >= b + c, c a borrow
RECURSIVE SubB(_, _, _)
SubB(a, b, c) ==
  IF a = << >> THEN << >>
  ELSE LET s == a[1] - Digit(b) - c
       IN  <<(s + Limb) % Limb>> \o SubB(Tail(a), Rest(b), IF s < 0 THEN 1 ELSE 0)
BigSub(a, b) == Trim(SubB(a, b, 0))

\* -1, 0, 1 as a is below, equal to or above b
RECURSIVE BigCmp(_, _)
BigCmp(a, b) ==
  IF Len(a) # Len(b) THEN (IF Len(a) < Len(b) THEN -1 ELSE 1)
  ELSE IF a = << >> THEN 0
  ELSE IF a[Len(a)] # b[Len(a)] THEN (IF a[Len(a)] < b[Len(a)] THEN -1 ELSE 1)
  ELSE BigCmp(SubSeq(a, 1, Len(a) - 1), SubSeq(b, 1, Len(a) - 1))

\* a * k + c for 0 < k < 2^18
RECURSIVE MulSmall(_, _, _)
MulSmall(a, k, c) ==
  IF a = << >> THEN Big(c)
  ELSE LET s == a[1] * k + c
       IN  <<s % Limb>> \o MulSmall(Tail(a), k, s \div Limb)

\* long division of r * Limb^Len(a) + a by k, r < k < 2^18: the digits of the
\* quotient, the most significant first, then the remainder
RECURSIVE DivFrom(_, _, _)
DivFrom(a, k, r) ==
  IF a = << >> THEN <<r>>
  ELSE LET s == r * Limb + a[Len(a)]
       IN  <<s \div k>> \o DivFrom(SubSeq(a, 1, Len(a) - 1), k, s % k)

\* <<the digits of a \div k, a % k>> for 0 < k < 2^18
DivSmall(a, k) ==
  LET t == DivFrom(a, k, 0)
      n == Len(a)
  IN  <<[i \in 1..n |-> t[n + 1 - i]], t[n + 1]>>

\* a * 2^k and a \div 2^k
Shl(a, k) ==
  IF a = << >> THEN << >>
  ELSE [i \in 1..(k \div LimbBits) |-> 0] \o MulSmall(a, 2 ^ (k % LimbBits), 0)
Shr(a, k) ==
  Trim(DivSmall(SubSeq(a, k \div LimbBits + 1, Len(a)), 2 ^ (k % LimbBits))[1])

BigBitLen(a) == IF a = << >> THEN 0 ELSE LimbBits * (Len(a) - 1) + BitLen(a[Len(a)])

\* -1, 0, 1 as the low k bits of n are below, equal to or above half of 2^k
Half(n, k) ==
  LET r == BigSub(n, Shl(Shr(n, k), k))
  IN  BigCmp(BigAdd(r, r), Shl(<<1>>, k))

(* ---- binary64 arithmetic ---------------------------------------------- *)
\* A Python float is an IEEE-754 double.  A double x >= 0 is the record
\* [m, e] with x = m * 2^e and m a natural number below 2^53 (or 2^53 itself
\* after a carry).  Each operation forms its exact result and rounds it to 53
\* bits, to the nearest and an exact half to the even mantissa.  Exponents
\* stay far inside the double's range.
Zero == [m |-> << >>, e |-> 0]

\* the double nearest to (n + f) * 2^e, where 0 <= f < 1 and sticky says f > 0;
\* when sticky, n has at least 55 bits
Fl(n, e, sticky) ==
  LET s == BigBitLen(n) - 53
  IN  IF s <= 0 THEN [m |-> n, e |-> e]
      ELSE LET q == Shr(n, s)
               h == Half(n, s)
               up == h > 0 \/ (h = 0 /\ (sticky \/ Digit(q) % 2 = 1))
           IN  [m |-> IF up THEN BigAdd(q, <<1>>) ELSE q, e |-> e + s]

\* float(n) of an int 0 <= n < 2^31
FromInt(n) == [m |-> Big(n), e |-> 0]

\* <<n, d, e>> with d <= n < 2 * d and a / b = (n / d) * 2^e, for a > 0 and
\* 0 < b < 2^30
Normalize(a, b) ==
  LET k == BitLen(b) - BitLen(a)
      n == IF k > 0 THEN a * 2 ^ k ELSE a
      d == IF k < 0 THEN b * 2 ^ (-k) ELSE b
  IN  IF n < d THEN <<2 * n, d, -k - 1>> ELSE <<n, d, -k>>

\* qr = <<q, r>> with r < d: q followed by the next steps bits of the binary
\* expansion of r / d, as one number, and the remainder
RECURSIVE DivBits(_, _, _)
DivBits(qr, d, steps) ==
  IF steps = 0 THEN qr
  ELSE IF 2 * qr[2] >= d
    THEN DivBits(<<2 * qr[1] + 1, 2 * qr[2] - d>>, d, steps - 1)
    ELSE DivBits(<<2 * qr[1], 2 * qr[2]>>, d, steps - 1)

\* the next n base-Limb digits of r / d, r < d, the most significant first, then
\* the remainder
RECURSIVE DivDigits(_, _, _)
DivDigits(r, d, n) ==
  IF n = 0 THEN <<r>>
  ELSE LET c == DivBits(<<0, r>>, d, LimbBits)
       IN  <<c[1]>> \o DivDigits(c[2], d, n - 1)

\* a / b of two ints, a >= 0 and 0 < b < 2^30: the double nearest to the quotient
TrueDiv(a, b) ==
  IF a = 0 THEN Zero
  ELSE LET nd == Normalize(a, b)
           \* digits after the leading one: more bits than the 53 kept
           n == 5
           q == DivDigits(nd[1] - nd[2], nd[2], n)
       IN  Fl([i \in 1..(n + 1) |-> IF i = n + 1 THEN 1 ELSE q[n + 1 - i]],
              nd[3] - n * LimbBits, q[n + 1] # 0)

\* a double that is a whole number, as the product of the factors f, each below
\* 2^18, times 2^e
Whole(k) == [f |-> <<k>>, e |-> 0]

RECURSIVE MulAll(_, _)
MulAll(n, f) == IF f = << >> THEN n ELSE MulSmall(MulAll(n, Tail(f)), f[1], 0)

\* <<n \div the product of f, whether a remainder was dropped>>
RECURSIVE DivAll(_, _)
DivAll(n, f) ==
  IF f = << >> THEN <<n, FALSE>>
  ELSE LET qr == DivSmall(n, f[1])
           t == DivAll(Trim(qr[1]), Tail(f))
       IN  IF qr[2] # 0 THEN <<t[1], TRUE>> ELSE t

\* x * c and x / c for a whole c > 0
FMul(x, c) ==
  IF x.m = << >> THEN Zero
  ELSE Fl(MulAll(x.m, c.f), x.e + c.e, FALSE)
FDiv(x, c) ==
  IF x.m = << >> THEN Zero
  ELSE LET s == 55 + 18 * Len(c.f)
           qr == DivAll(Shl(x.m, s), c.f)
       IN  Fl(qr[1], x.e - c.e - s, qr[2])

\* x + y, and x - y for x >= y
FAdd(x, y) ==
  IF x.m = << >> THEN y
  ELSE IF y.m = << >> THEN x
  ELSE LET e == Min(x.e, y.e)
       IN  Fl(BigAdd(Shl(x.m, x.e - e), Shl(y.m, y.e - e)), e, FALSE)
FSub(x, y) ==
  IF y.m = << >> THEN x
  ELSE LET e == Min(x.e, y.e)
       IN  Fl(BigSub(Shl(x.m, x.e - e), Shl(y.m, y.e - e)), e, FALSE)

\* round(x, ndigits) in units of 10^-ndigits: the multiple nearest to the double's
\* exact value, an exact half to the even multiple; round(x) is ndigits = 0
round(x, ndigits) ==
  LET n == MulSmall(x.m, 10 ^ ndigits, 0)
  IN  IF x.e >= 0 THEN BigToInt(Shl(n, x.e))
      ELSE LET k == BigToInt(Shr(n, -x.e))
               h == Half(n, -x.e)
           IN  IF h > 0 \/ (h = 0 /\ k % 2 = 1) THEN k + 1 ELSE k

(* ---- rounded quotients ------------------------------------------------ *)
\* A double differs from the exact value by less than one part in 2^50, so off a
\* rounding tie the rounded double is the rounded exact value; a value exactly on
\* a tie is rounded as its double.

\* round(a / b, ndigits) in units of 10^-ndigits, for ints a >= 0 and b > 0
RoundDiv(a, b, ndigits) ==
  LET scaled == a * 10 ^ ndigits
  IN  IF 2 * (scaled % b) # b THEN RoundHalfEven(scaled, b)
      ELSE round(TrueDiv(a, b), ndigits)

\* round(part / whole * 100, 1), in tenths, for 0 <= part <= whole < 2^30
PctX10(part, whole) ==
  LET p == PctParts(part, whole)
  IN  IF 2 * p[2] < whole THEN p[1]
      ELSE IF 2 * p[2] > whole THEN p[1] + 1
      ELSE round(FMul(TrueDiv(part, whole), Whole(100)), 1)

(* ---- gas_to_usd ------------------------------------------------------- *)
\* gas * GAS_PRICE_GWEI * WEI_PER_GWEI / WEI_PER_ETH, then * ETH_PRICE_USD.  The
\* int product gas * GAS_PRICE_GWEI is below 2^53 and so is its own double; each
\* float operation after it rounds
gas_to_usd(gas) ==
  LET wei == FMul(FMul(FromInt(gas), Whole(GAS_PRICE_GWEI)), WEI_PER_GWEI)
      eth == FDiv(wei, WEI_PER_ETH)
  IN  FMul(eth, Whole(ETH_PRICE_USD))

RECURSIVE Gcd(_, _)
Gcd(a, b) == IF b = 0 THEN a ELSE Gcd(b, a % b)

\* <<n, d>>: the exact price of one unit of gas is n / d cents, in lowest terms
CentsPerGas ==
  LET n == GAS_PRICE_GWEI * ETH_PRICE_USD * 100
      d == 10 ^ 9
  IN  <<n \div Gcd(n, d), d \div Gcd(n, d)>>

\* round(usd, 2) in cents, usd being the double the program holds for the price
\* of gas units of gas
UsdX100(gas, usd) ==
  LET n == CentsPerGas[1]
      d == CentsPerGas[2]
      q == (gas \div d) * n + ((gas % d) * n) \div d
      r == ((gas % d) * n) % d
  IN  IF 2 * r < d THEN q
      ELSE IF 2 * r > d THEN q + 1
      ELSE round(usd, 2)

(* ---- calc_sample_counts ----------------------------------------------- *)
Returned(pm, tv) == [status |-> "ok", pm_samples |-> pm, tv_samples |-> tv]

\* the division at line 59 or 65 with a zero divisor: no value is returned
ZeroDivisionError == [status |-> "ZeroDivisionError", pm_samples |-> -1, tv_samples |-> -1]

\* tie: the full batch count
TieSamplesMut(batch_count) == IF batch_count > 1 THEN batch_count - 1 ELSE batch_count
TieSamples(batch_count) == batch_count

\* leave at least one batch unsampled when possible
MaxSamplesMut(batch_count) == batch_count
MaxSamples(batch_count) == IF batch_count > 1 THEN batch_count - 1 ELSE batch_count

VotesToFlipMut(margin) == margin \div 2
VotesToFlip(margin) == margin \div 2 + 1

\* the cap at the batch count forgotten
CorruptBatchesMut(votes_to_flip, batch_size, batch_count) ==
  CeilDiv(votes_to_flip, batch_size)
CorruptBatches(votes_to_flip, batch_size, batch_count) ==
  Min(CeilDiv(votes_to_flip, batch_size), batch_count)

\* the confidence ratio turned upside down
RequiredSamplesMut(batch_count, corrupt) ==
  CeilDiv(CONFIDENCE_X1000 * corrupt, batch_count * 1000)
RequiredSamples(batch_count, corrupt) ==
  CeilDiv(CONFIDENCE_X1000 * batch_count, corrupt * 1000)

\* the cap forgotten
CapSamplesMut(required, max) == required
CapSamples(required, max) == Min(required, max)

calc_sample_counts(margin, total_votes, pm_batch_count, tv_batch_count, pm_batch_size, tv_batch_size) ==
  IF total_votes = 0 THEN Returned(0, 0)
  ELSE IF margin = 0 THEN Returned(TieSamples(pm_batch_count), TieSamples(tv_batch_count))
  ELSE
    LET pm_max == MaxSamples(pm_batch_count)
        tv_max == MaxSamples(tv_batch_count)
        votes_to_flip == VotesToFlip(margin)
        pm_corrupt == CorruptBatches(votes_to_flip, pm_batch_size, pm_batch_count)
        tv_corrupt == CorruptBatches(votes_to_flip, tv_batch_size, tv_batch_count)
    IN  IF pm_corrupt = 0 THEN ZeroDivisionError
        ELSE IF tv_corrupt = 0 THEN ZeroDivisionError
        ELSE Returned(
               CapSamples(RequiredSamples(pm_batch_count, pm_corrupt), pm_max),
               CapSamples(RequiredSamples(tv_batch_count, tv_corrupt), tv_max))

(* ---- analyze_dispute -------------------------------------------------- *)
\* round(voters * consensus_rate), the rate being the double nearest to
\* rate[1] / rate[2] and voters below 2^18
YesVotes(voters, rate) ==
  IF 2 * ((voters * rate[1]) % rate[2]) # rate[2]
    THEN RoundHalfEven(voters * rate[1], rate[2])
    ELSE round(FMul(TrueDiv(rate[1], rate[2]), Whole(voters)), 0)

Abs(x) == IF x < 0 THEN -x ELSE x

PmBatches(voters) == CeilDiv(voters, PM_BATCH_SIZE)

\* the state tree padding leaf forgotten
TvBatchesMut(voters) == CeilDiv(voters, TV_BATCH_SIZE)
TvBatches(voters) == CeilDiv(voters + 1, TV_BATCH_SIZE)

FullMaciGas(pm_batches, tv_batches) ==
  pm_batches * PM_PROOF_GAS + tv_batches * TV_PROOF_GAS + MACI_FIXED_GAS

\* the full-MACI overhead charged on top of the MaciRLA one
MacirlaGasMut(pm_samples, tv_samples) ==
  pm_samples * PM_PROOF_GAS + tv_samples * TV_PROOF_GAS + MACIRLA_FIXED_GAS
    + MACI_FIXED_GAS
MacirlaGas(pm_samples, tv_samples) ==
  pm_samples * PM_PROOF_GAS + tv_samples * TV_PROOF_GAS + MACIRLA_FIXED_GAS

\* the percentage cut after its first decimal in place of rounded
SavingsPctMut(savings_gas, full_maci_gas) ==
  IF full_maci_gas > 0 THEN PctParts(savings_gas, full_maci_gas)[1] ELSE 0
\* (savings_gas / full_maci_gas * 100) if full_maci_gas > 0 else 0, then round(., 1)
SavingsPct(savings_gas, full_maci_gas) ==
  IF full_maci_gas > 0 THEN PctX10(savings_gas, full_maci_gas) ELSE 0

\* lines 120-162: the record of a dispute whose yes votes are counted
DisputeRecord(voters, consensus_rate, yes_votes) ==
  LET no_votes == voters - yes_votes
      margin == Abs(yes_votes - no_votes)
      pm_batches == PmBatches(voters)
      tv_batches == TvBatches(voters)
      \* an exception of calc_sample_counts leaves analyze_dispute: status carries it
      samples == calc_sample_counts(margin, voters, pm_batches, tv_batches,
                                    PM_BATCH_SIZE, TV_BATCH_SIZE)
      full_maci_gas == FullMaciGas(pm_batches, tv_batches)
      macirla_gas == MacirlaGas(samples.pm_samples, samples.tv_samples)
      savings_gas == full_maci_gas - macirla_gas
  IN  [status |-> samples.status,
       voters |-> voters,
       yes_votes |-> yes_votes,
       no_votes |-> no_votes,
       margin |-> margin,
       margin_pct |-> IF voters > 0 THEN PctX10(margin, voters) ELSE 0,
       consensus_rate |-> RoundDiv(consensus_rate[1], consensus_rate[2], 4),
       pm_batches |-> pm_batches,
       tv_batches |-> tv_batches,
       pm_samples |-> samples.pm_samples,
       tv_samples |-> samples.tv_samples,
       total_batches |-> pm_batches + tv_batches,
       total_samples |-> samples.pm_samples + samples.tv_samples,
       full_maci_gas |-> full_maci_gas,
       macirla_gas |-> macirla_gas,
       savings_gas |-> savings_gas,
       savings_pct |-> SavingsPct(savings_gas, full_maci_gas),
       full_usd |-> UsdX100(full_maci_gas, gas_to_usd(full_maci_gas)),
       rla_usd |-> UsdX100(macirla_gas, gas_to_usd(macirla_gas)),
       \* full_usd - rla_usd, a difference of two doubles
       savings_usd |-> UsdX100(savings_gas,
                               FSub(gas_to_usd(full_maci_gas), gas_to_usd(macirla_gas)))]

analyze_dispute(voters, consensus_rate) ==
  DisputeRecord(voters, consensus_rate, YesVotes(voters, consensus_rate))

(* ---- summarize_results, build_histogram -------------------------------- *)
RECURSIVE SumSeq(_)
SumSeq(s) == IF s = << >> THEN 0 ELSE Head(s) + SumSeq(Tail(s))

RECURSIVE MinSeq(_)
MinSeq(s) == IF Len(s) = 1 THEN s[1] ELSE Min(s[1], MinSeq(Tail(s)))

RECURSIVE MaxSeq(_)
MaxSeq(s) == IF Len(s) = 1 THEN s[1]
             ELSE LET t == MaxSeq(Tail(s)) IN IF s[1] >= t THEN s[1] ELSE t

\* sum(values) of the floats given in tenths: from 0, left to right, each partial
\* sum rounded
RECURSIVE FloatSum(_)
FloatSum(tenths) ==
  IF tenths = << >> THEN Zero
  ELSE LET x == FloatSum(SubSeq(tenths, 1, Len(tenths) - 1))
           y == TrueDiv(tenths[Len(tenths)], 10)
       IN  IF x.m = << >> THEN y ELSE FAdd(x, y)

\* round(sum(values) / len(values), 1) in tenths, the values being percentages
\* already rounded to one decimal
MeanX10(tenths) ==
  LET n == Len(tenths)
      s == SumSeq(tenths)
  IN  IF 2 * (s % n) # n THEN RoundHalfEven(s, n)
      ELSE round(FDiv(FloatSum(tenths), Whole(n)), 1)

Sorted(s) == SortSeq(s, LAMBDA a, b : a < b)

\* the lower of the two middle values on an even length
MedianMut(values) == Sorted(values)[(Len(values) - 1) \div 2 + 1]
\* sorted(values)[len(values) // 2], the list being indexed from 0
Median(values) == Sorted(values)[Len(values) \div 2 + 1]

\* the mean of the per-record percentages in place of the totals
AggregateSavingsPctMut(results, total_full_gas, total_rla_gas) ==
  RoundHalfEven(SumSeq([i \in 1..Len(results) |-> results[i].savings_pct]), Len(results))
AggregateSavingsPct(results, total_full_gas, total_rla_gas) ==
  IF total_full_gas > 0 THEN PctX10(total_full_gas - total_rla_gas, total_full_gas) ELSE 0

\* {}: the summary of no results has no key
EmptySummary == [k \in {} |-> 0]

summarize_results(results, protocol_name) ==
  IF results = << >> THEN EmptySummary
  ELSE
    LET n == Len(results)
        voters_list == [i \in 1..n |-> results[i].voters]
        margins == [i \in 1..n |-> results[i].margin_pct]
        savings == [i \in 1..n |-> results[i].savings_pct]
        total_full_gas == SumSeq([i \in 1..n |-> results[i].full_maci_gas])
        total_rla_gas == SumSeq([i \in 1..n |-> results[i].macirla_gas])
        total_savings_gas == total_full_gas - total_rla_gas
    IN  [protocol |-> protocol_name,
         dispute_count |-> n,
         voter_stats |-> [min |-> MinSeq(voters_list),
                          max |-> MaxSeq(voters_list),
                          mean |-> RoundDiv(SumSeq(voters_list), n, 1),
                          median |-> Median(voters_list)],
         margin_stats |-> [min |-> MinSeq(margins),
                           max |-> MaxSeq(margins),
                           mean |-> MeanX10(margins),
                           median |-> Median(margins)],
         savings_stats |-> [min |-> MinSeq(savings),
                            max |-> MaxSeq(savings),
                            mean |-> MeanX10(savings),
                            median |-> Median(savings)],
         total_full_gas |-> total_full_gas,
         total_rla_gas |-> total_rla_gas,
         total_savings_gas |-> total_savings_gas,
         aggregate_savings_pct |->
           AggregateSavingsPct(results, total_full_gas, total_rla_gas),
         total_full_usd |-> UsdX100(total_full_gas, gas_to_usd(total_full_gas)),
         total_rla_usd |-> UsdX100(total_rla_gas, gas_to_usd(total_rla_gas)),
         total_savings_usd |-> UsdX100(total_savings_gas, gas_to_usd(total_savings_gas))]

\* the upper edge taken into the bucket
InBucketMut(lo, v, hi) == lo <= v /\ v <= hi
\* b[0] <= v < b[1]
InBucket(lo, v, hi) == lo <= v /\ v < hi

\* bins are pairs <<lo, hi>> in whole percent; the values are in tenths.  The
\* dictionary is keyed by the label "lo-hi", which names the pair.
build_histogram(results, key, bins) ==
  LET values == [i \in 1..Len(results) |-> results[i][key]]
  IN  [b \in {bins[j] : j \in 1..Len(bins)} |->
         Cardinality({i \in 1..Len(values) : InBucket(b[1] * 10, values[i], b[2] * 10)})]

margin_bins == <<<<0, 10>>, <<10, 30>>, <<30, 50>>, <<50, 70>>, <<70, 90>>, <<90, 101>>>>
savings_bins == <<<<0, 20>>, <<20, 40>>, <<40, 60>>, <<60, 80>>, <<80, 100>>, <<100, 101>>>>

(* ---- state ------------------------------------------------------------ *)
VARIABLES
  pc,       \* which entry point is being driven, and how far it is
  args,     \* the arguments of the calc_sample_counts call
  ret,      \* << >> before the call, <<its outcome>> after it
  prev,     \* << >>, or <<[args, ret]>> of the call before this one
  input,    \* the arguments of the analyze_dispute call
  result,   \* << >> before the call, <<the analysis result>> after it
  results,  \* main: the analysis results so far
  summary,  \* main: << >>, or <<the summary of results>>
  hist,     \* main: << >>, or <<the two histograms of results>>
  hargs,    \* the key and the bins of the build_histogram call
  hret      \* << >> before the call, <<the histogram>> after it

vars == <<pc, args, ret, prev, input, result, results, summary, hist, hargs, hret>>

BatchSizes == {1, 2, 5}

CalcArgs ==
  [margin : 0..MaxMargin, total_votes : 0..MaxVotes,
   pm_batch_count : 0..MaxBatches, tv_batch_count : 0..MaxBatches,
   pm_batch_size : BatchSizes, tv_batch_size : BatchSizes]

\* consensus rates num/den in [0, 1]; with 11, 45 or 160 voters the last three
\* put the vote count, the margin percentage or the rounded rate on a tie
Rates == {<<0, 1>>, <<1, 4>>, <<1, 2>>, <<3, 4>>, <<9, 10>>, <<1, 1>>,
          <<15, 22>>, <<7, 10>>, <<29, 160>>}
PipelineRates == {<<1, 2>>, <<3, 4>>, <<1, 1>>}

\* 128 and 388 voters put an amount in USD on half a cent
TieVoters == {45, 128, 160, 388}
AnalyzeInputs == [voters : (0..MaxVoters) \cup TieVoters \cup {1000}, consensus_rate : Rates]

NoArgs == [margin |-> 0, total_votes |-> 0, pm_batch_count |-> 0, tv_batch_count |-> 0,
           pm_batch_size |-> PM_BATCH_SIZE, tv_batch_size |-> TV_BATCH_SIZE]
NoInput == [voters |-> 0, consensus_rate |-> <<0, 1>>]

\* supplied buckets: overlapping, not contiguous, not exhaustive, repeated
Buckets == {<<0, 50>>, <<0, 100>>, <<50, 100>>}
SuppliedBins ==
  {<< >>} \cup {<<a>> : a \in Buckets} \cup {<<a, b>> : a \in Buckets, b \in Buckets}
    \cup {margin_bins, savings_bins}
HistArgs == [key : {"margin_pct", "savings_pct"}, bins : SuppliedBins]
NoBins == [key |-> "margin_pct", bins |-> << >>]

\* the analysis results of the disputes main may load
PipelineResults ==
  {analyze_dispute(v, r) : v \in 0..MaxPipelineVoters, r \in PipelineRates}
HistResults == UNION {[1..n -> PipelineResults] : n \in 0..MaxHistRecords}

Call(a) == calc_sample_counts(a.margin, a.total_votes, a.pm_batch_count,
                              a.tv_batch_count, a.pm_batch_size, a.tv_batch_size)

InitCalc ==
  /\ pc = "calc"
  /\ args \in CalcArgs
  /\ ret = << >> /\ prev = << >>
  /\ input = NoInput /\ result = << >>
  /\ results = << >> /\ summary = << >> /\ hist = << >>
  /\ hargs = NoBins /\ hret = << >>

InitAnalyze ==
  /\ pc = "analyze"
  /\ input \in AnalyzeInputs
  /\ result = << >>
  /\ args = NoArgs /\ ret = << >> /\ prev = << >>
  /\ results = << >> /\ summary = << >> /\ hist = << >>
  /\ hargs = NoBins /\ hret = << >>

InitMain ==
  /\ pc = "main"
  /\ results = << >> /\ summary = << >> /\ hist = << >>
  /\ hargs = NoBins /\ hret = << >>
  /\ args = NoArgs /\ ret = << >> /\ prev = << >>
  /\ input = NoInput /\ result = << >>

InitHistogram ==
  /\ pc = "histogram"
  /\ results \in HistResults
  /\ hargs \in HistArgs
  /\ hret = << >>
  /\ summary = << >> /\ hist = << >>
  /\ args = NoArgs /\ ret = << >> /\ prev = << >>
  /\ input = NoInput /\ result = << >>

Init == InitCalc \/ InitAnalyze \/ InitMain \/ InitHistogram

\* a direct call of calc_sample_counts
CalcSampleCounts ==
  /\ pc = "calc"
  /\ ret' = <<Call(args)>>
  /\ pc' = "calc_done"
  /\ UNCHANGED <<args, prev, input, result, results, summary, hist, hargs, hret>>

\* the same call again with a larger margin, everything else fixed
CalcLargerMargin ==
  /\ pc = "calc_done"
  /\ \E m \in (args.margin + 1)..MaxMargin :
       /\ args' = [args EXCEPT !.margin = m]
       /\ ret' = <<Call(args')>>
  /\ prev' = <<[args |-> args, ret |-> ret[1]]>>
  /\ UNCHANGED <<pc, input, result, results, summary, hist, hargs, hret>>

\* a direct call of analyze_dispute
AnalyzeDispute ==
  /\ pc = "analyze"
  /\ result' = <<analyze_dispute(input.voters, input.consensus_rate)>>
  /\ pc' = "analyze_done"
  /\ UNCHANGED <<args, ret, prev, input, results, summary, hist, hargs, hret>>

\* main: the next loaded dispute is analyzed
AnalyzeNext ==
  /\ pc = "main"
  /\ Len(results) < MaxRecords
  /\ \E v \in 0..MaxPipelineVoters, r \in PipelineRates :
       results' = Append(results, analyze_dispute(v, r))
  /\ UNCHANGED <<pc, args, ret, prev, input, result, summary, hist, hargs, hret>>

\* main: every dispute is analyzed, the results are summarized
SummarizeResults ==
  /\ pc = "main"
  /\ \E name \in {"UMA", "Kleros"} : summary' = <<summarize_results(results, name)>>
  /\ pc' = "summarized"
  /\ UNCHANGED <<args, ret, prev, input, result, results, hist, hargs, hret>>

\* main: the margin and the savings distributions
BuildHistograms ==
  /\ pc = "summarized"
  /\ hist' = <<[margin_distribution |-> build_histogram(results, "margin_pct", margin_bins),
                savings_distribution |-> build_histogram(results, "savings_pct", savings_bins)]>>
  /\ pc' = "done"
  /\ UNCHANGED <<args, ret, prev, input, result, results, summary, hargs, hret>>

\* a direct call of build_histogram on supplied buckets
BuildHistogram ==
  /\ pc = "histogram"
  /\ hret' = <<build_histogram(results, hargs.key, hargs.bins)>>
  /\ pc' = "histogram_done"
  /\ UNCHANGED <<args, ret, prev, input, result, results, summary, hist, hargs>>

Next ==
  \/ CalcSampleCounts
  \/ CalcLargerMargin
  \/ AnalyzeDispute
  \/ AnalyzeNext
  \/ SummarizeResults
  \/ BuildHistograms
  \/ BuildHistogram

Spec == Init /\ [][Next]_vars

(* ---- properties ------------------------------------------------------- *)
CalcReturned == Len(ret) = 1 /\ ret[1].status = "ok"

\* every analysis result there is: the direct call's and main's
AllResults == {result[i] : i \in 1..Len(result)} \cup {results[i] : i \in 1..Len(results)}

\* C1: the sample counts calc_sample_counts returns lie between 0 and the batch
\* counts it was given, and so do pm_samples and tv_samples of every result of
\* analyze_dispute against its pm_batches and tv_batches.
C1_SampleBounds ==
  /\ CalcReturned =>
       /\ 0 <= ret[1].pm_samples /\ ret[1].pm_samples <= args.pm_batch_count
       /\ 0 <= ret[1].tv_samples /\ ret[1].tv_samples <= args.tv_batch_count
  /\ \A r \in AllResults :
       /\ 0 <= r.pm_samples /\ r.pm_samples <= r.pm_batches
       /\ 0 <= r.tv_samples /\ r.tv_samples <= r.tv_batches

\* a returned call whose PM count sits on the cap and whose TV count is below it
C1_Witness ==
  /\ CalcReturned /\ args.margin > 0 /\ args.total_votes > 0
  /\ args.pm_batch_count > 2 /\ args.tv_batch_count > 2
  /\ ret[1].pm_samples = args.pm_batch_count - 1
  /\ ret[1].tv_samples < args.tv_batch_count - 1

\* C2 as stated: whenever margin = 0 the sample counts are the full batch counts,
\* for calc_sample_counts and for every result of analyze_dispute.
C2_TieAlwaysFull ==
  /\ (CalcReturned /\ args.margin = 0) =>
       /\ ret[1].pm_samples = args.pm_batch_count
       /\ ret[1].tv_samples = args.tv_batch_count
  /\ \A r \in AllResults :
       r.margin = 0 => r.pm_samples = r.pm_batches /\ r.tv_samples = r.tv_batches

\* C2 amended: whenever margin = 0 and total_votes > 0 (voters > 0) the sample
\* counts are the full batch counts; with total_votes = 0 they are (0, 0).
C2_TieFullProof ==
  /\ (CalcReturned /\ args.margin = 0 /\ args.total_votes > 0) =>
       /\ ret[1].pm_samples = args.pm_batch_count
       /\ ret[1].tv_samples = args.tv_batch_count
  /\ (CalcReturned /\ args.total_votes = 0) =>
       ret[1].pm_samples = 0 /\ ret[1].tv_samples = 0
  /\ \A r \in AllResults :
       /\ (r.margin = 0 /\ r.voters > 0) =>
            r.pm_samples = r.pm_batches /\ r.tv_samples = r.tv_batches
       /\ r.voters = 0 => r.pm_samples = 0 /\ r.tv_samples = 0

\* a tie over several batches, called directly
C2_Witness ==
  /\ CalcReturned /\ args.margin = 0 /\ args.total_votes > 0
  /\ args.pm_batch_count > 1 /\ args.tv_batch_count > 1
  /\ ret[1].pm_samples = args.pm_batch_count

\* C3 as stated: analyze_dispute with voters = 0 returns a result whose margin,
\* margin_pct, batch counts, sample counts, gas totals and savings are all 0.
C3_ZeroVotersAllZero ==
  \A r \in AllResults :
    r.voters = 0 =>
      /\ r.status = "ok"
      /\ r.margin = 0 /\ r.margin_pct = 0
      /\ r.pm_batches = 0 /\ r.tv_batches = 0
      /\ r.pm_samples = 0 /\ r.tv_samples = 0
      /\ r.full_maci_gas = 0 /\ r.macirla_gas = 0
      /\ r.savings_gas = 0 /\ r.savings_pct = 0

\* C3 amended: analyze_dispute with voters = 0 returns without a division error;
\* margin, margin_pct, pm_batches, pm_samples and tv_samples are 0, while
\* tv_batches is 1 (the padding leaf), full_maci_gas is 8295918 (one TV proof and
\* the fixed overhead), macirla_gas is 7000000, savings_gas is 1295918 and
\* savings_pct is 15.6.
C3_ZeroVoters ==
  \A r \in AllResults :
    r.voters = 0 =>
      /\ r.status = "ok"
      /\ r.margin = 0 /\ r.margin_pct = 0
      /\ r.pm_batches = 0 /\ r.tv_batches = 1
      /\ r.pm_samples = 0 /\ r.tv_samples = 0
      /\ r.full_maci_gas = 8295918 /\ r.macirla_gas = 7000000
      /\ r.savings_gas = 1295918 /\ r.savings_pct = 156

\* analyze_dispute was called with no voters
C3_Witness ==
  /\ pc = "analyze_done" /\ input.voters = 0 /\ input.consensus_rate = <<1, 2>>
  /\ Len(result) = 1 /\ result[1].voters = 0

\* C4 as stated: for every call, a structure of more than one batch gets at most
\* batch_count - 1 samples.
C4_AlwaysOneUnsampled ==
  CalcReturned =>
    /\ args.pm_batch_count > 1 => ret[1].pm_samples <= args.pm_batch_count - 1
    /\ args.tv_batch_count > 1 => ret[1].tv_samples <= args.tv_batch_count - 1

\* C4 amended: for every call that is not a tie (margin > 0, or total_votes = 0),
\* a structure of more than one batch gets at most batch_count - 1 samples.
C4_OneUnsampled ==
  (CalcReturned /\ (args.margin > 0 \/ args.total_votes = 0)) =>
    /\ args.pm_batch_count > 1 => ret[1].pm_samples <= args.pm_batch_count - 1
    /\ args.tv_batch_count > 1 => ret[1].tv_samples <= args.tv_batch_count - 1

\* the cap is what decides: the requirement is larger than batch_count - 1
C4_Witness ==
  /\ CalcReturned /\ args.margin > 0 /\ args.total_votes > 0
  /\ args.pm_batch_count > 1
  /\ RequiredSamples(args.pm_batch_count,
       CorruptBatches(VotesToFlip(args.margin), args.pm_batch_size, args.pm_batch_count))
       >= args.pm_batch_count
  /\ ret[1].pm_samples = args.pm_batch_count - 1

\* C5: no core operation raises on its documented domain: calc_sample_counts on
\* non-negative margin, votes and batch counts and positive batch sizes,
\* analyze_dispute on voters >= 0 and a rate in [0, 1], summarize_results on any
\* collection (the empty one yields the empty structure), build_histogram.
C5_NoOperationFails ==
  /\ Len(ret) = 1 => ret[1].status = "ok"
  /\ \A r \in AllResults : r.status = "ok"
  /\ (Len(summary) = 1 /\ results = << >>) => DOMAIN summary[1] = {}

\* C6: for fixed total_votes > 0, batch counts and batch sizes, a call with a
\* larger margin returns sample counts no larger than the call before it.
C6_Monotone ==
  (/\ Len(prev) = 1 /\ prev[1].ret.status = "ok" /\ CalcReturned
   /\ args.total_votes > 0
   /\ prev[1].args = [args EXCEPT !.margin = prev[1].args.margin]
   /\ prev[1].args.margin <= args.margin) =>
    /\ ret[1].pm_samples <= prev[1].ret.pm_samples
    /\ ret[1].tv_samples <= prev[1].ret.tv_samples

\* two calls that are no tie, the larger margin sampling strictly less
C6_Witness ==
  /\ Len(prev) = 1 /\ prev[1].ret.status = "ok" /\ CalcReturned
  /\ args.total_votes > 0
  /\ 0 < prev[1].args.margin /\ prev[1].args.margin < args.margin
  /\ ret[1].pm_samples < prev[1].ret.pm_samples
  /\ ret[1].tv_samples < prev[1].ret.tv_samples

\* part / whole * 100 lies within half a tenth of pct tenths
NearestTenth(pct, part, whole) ==
  LET p == PctParts(part, whole)
  IN  \/ pct = p[1] /\ 2 * p[2] <= whole
      \/ pct = p[1] + 1 /\ 2 * p[2] >= whole

\* part / whole * 100 is pct tenths exactly
ExactTenth(pct, part, whole) == PctParts(part, whole) = <<pct, 0>>

\* C7 as stated: in every result of analyze_dispute full_maci_gas >= macirla_gas,
\* savings_gas >= 0, and savings_pct is exactly savings_gas / full_maci_gas * 100.
C7_SavingsExact ==
  \A r \in AllResults :
    /\ r.full_maci_gas >= r.macirla_gas
    /\ r.savings_gas = r.full_maci_gas - r.macirla_gas /\ r.savings_gas >= 0
    /\ r.full_maci_gas > 0 /\ ExactTenth(r.savings_pct, r.savings_gas, r.full_maci_gas)

\* C7 amended: in every result of analyze_dispute full_maci_gas >= macirla_gas,
\* savings_gas = full_maci_gas - macirla_gas >= 0, and savings_pct is
\* savings_gas / full_maci_gas * 100 rounded to one decimal place.
C7_SavingsRounded ==
  \A r \in AllResults :
    /\ r.full_maci_gas >= r.macirla_gas
    /\ r.savings_gas = r.full_maci_gas - r.macirla_gas /\ r.savings_gas >= 0
    /\ r.full_maci_gas > 0 /\ NearestTenth(r.savings_pct, r.savings_gas, r.full_maci_gas)

\* an analysis that sampled fewer batches than there are, its percentage rounded up
C7_Witness ==
  /\ pc = "analyze_done" /\ Len(result) = 1
  /\ result[1].pm_samples < result[1].pm_batches
  /\ result[1].savings_pct =
       PctParts(result[1].savings_gas, result[1].full_maci_gas)[1] + 1

\* C8: analyze_dispute for voters = 1000 and consensus_rate = 0.9 yields
\* yes_votes 900, no_votes 100, margin 800, pm_batches 200, tv_batches 501;
\* votes_to_flip is 401 and pm_corrupt 81, pm_samples is 8, and tv_samples is
\* min(ceil(2996 * 501 / (201 * 1000)), 500) = 8.
C8_Scenario ==
  (Len(result) = 1 /\ input.voters = 1000 /\ input.consensus_rate = <<9, 10>>) =>
    /\ result[1].yes_votes = 900 /\ result[1].no_votes = 100
    /\ result[1].margin = 800
    /\ result[1].pm_batches = 200 /\ result[1].tv_batches = 501
    /\ VotesToFlip(result[1].margin) = 401
    /\ CorruptBatches(VotesToFlip(result[1].margin), PM_BATCH_SIZE, result[1].pm_batches) = 81
    /\ CorruptBatches(VotesToFlip(result[1].margin), TV_BATCH_SIZE, result[1].tv_batches) = 201
    /\ result[1].pm_samples = 8
    /\ result[1].tv_samples = Min(CeilDiv(2996 * 501, 201 * 1000), 500)
    /\ result[1].tv_samples = 8

\* the scenario was analyzed
C8_Witness ==
  /\ pc = "analyze_done" /\ Len(result) = 1
  /\ input.voters = 1000 /\ input.consensus_rate = <<9, 10>>
  /\ result[1].voters = 1000 /\ result[1].consensus_rate = 9000

TotalFullGas == SumSeq([i \in 1..Len(results) |-> results[i].full_maci_gas])
TotalRlaGas == SumSeq([i \in 1..Len(results) |-> results[i].macirla_gas])
Summarized == Len(summary) = 1 /\ Len(results) > 0

\* C9 as stated: for a non-empty collection aggregate_savings_pct equals
\* (sum of full_maci_gas - sum of macirla_gas) / sum of full_maci_gas * 100.
C9_AggregateExact ==
  Summarized =>
    ExactTenth(summary[1].aggregate_savings_pct, TotalFullGas - TotalRlaGas, TotalFullGas)

\* C9 amended: for a non-empty collection aggregate_savings_pct equals
\* (sum of full_maci_gas - sum of macirla_gas) / sum of full_maci_gas * 100
\* rounded to one decimal place, the sums recomputed from the raw results; it is
\* computed from the totals, not from the mean of the per-record savings_pct.
C9_AggregateFromTotals ==
  Summarized =>
    /\ summary[1].total_full_gas = TotalFullGas
    /\ summary[1].total_rla_gas = TotalRlaGas
    /\ NearestTenth(summary[1].aggregate_savings_pct,
                    TotalFullGas - TotalRlaGas, TotalFullGas)

\* a summary whose aggregate is more than a tenth away from the mean of the
\* per-record percentages
C9_Witness ==
  /\ Summarized /\ Len(results) > 1
  /\ LET sum == SumSeq([i \in 1..Len(results) |-> results[i].savings_pct])
     IN  (summary[1].aggregate_savings_pct + 1) * Len(results) < sum

\* v is the element at index floor(n/2), counted from 0, of values sorted ascending
IsUpperMedian(v, values) ==
  LET n == Len(values)
      below == Cardinality({i \in 1..n : values[i] < v})
      upto == Cardinality({i \in 1..n : values[i] <= v})
  IN  /\ \E i \in 1..n : values[i] = v
      /\ below <= n \div 2 /\ n \div 2 < upto

Field(key) == [i \in 1..Len(results) |-> results[i][key]]

\* C10: for a non-empty collection of n results each median of summarize_results
\* (voters, margin_pct, savings_pct) is the element at index floor(n/2) of the
\* field's values sorted ascending: the upper median for even n.
C10_UpperMedian ==
  Summarized =>
    /\ IsUpperMedian(summary[1].voter_stats.median, Field("voters"))
    /\ IsUpperMedian(summary[1].margin_stats.median, Field("margin_pct"))
    /\ IsUpperMedian(summary[1].savings_stats.median, Field("savings_pct"))

\* an even number of results whose two middle values differ in every field
C10_Witness ==
  /\ Summarized /\ Len(results) = 2
  /\ results[1].voters < results[2].voters
  /\ results[1].margin_pct > results[2].margin_pct
  /\ results[1].savings_pct # results[2].savings_pct
  /\ summary[1].voter_stats.median = results[2].voters
  /\ summary[1].margin_stats.median = results[1].margin_pct

\* the records of results whose field key lies in lo <= v < hi, b in whole percent
InRange(key, b) ==
  {i \in 1..Len(results) : b[1] * 10 <= results[i][key] /\ results[i][key] < b[2] * 10}

RECURSIVE SumCounts(_, _)
SumCounts(h, bs) ==
  IF bs = {} THEN 0
  ELSE LET b == CHOOSE x \in bs : TRUE IN h[b] + SumCounts(h, bs \ {b})

Disjoint(bs) == \A a \in bs, b \in bs : a = b \/ a[2] <= b[1] \/ b[2] <= a[1]

\* h is the histogram of field key over the buckets bs
IsHistogram(h, key, bs) ==
  /\ DOMAIN h = bs
  /\ \A b \in bs :
       /\ h[b] = Cardinality(InRange(key, b))
       /\ \A i \in 1..Len(results) :
            results[i][key] = b[2] * 10 => h[b] <= Len(results) - 1
  /\ Disjoint(bs) => SumCounts(h, bs) <= Len(results)

\* C11: build_histogram counts for each supplied bucket (lo, hi) exactly the
\* records whose value v satisfies lo <= v < hi, a value equal to hi not being
\* counted in that bucket; records in no bucket are counted nowhere, so the
\* counts of pairwise disjoint buckets sum to at most the number of records.
C11_HalfOpenBuckets ==
  /\ Len(hret) = 1 =>
       IsHistogram(hret[1], hargs.key, {hargs.bins[j] : j \in 1..Len(hargs.bins)})
  /\ Len(hist) = 1 =>
       /\ IsHistogram(hist[1].margin_distribution, "margin_pct",
                      {margin_bins[j] : j \in 1..Len(margin_bins)})
       /\ IsHistogram(hist[1].savings_distribution, "savings_pct",
                      {savings_bins[j] : j \in 1..Len(savings_bins)})

\* two disjoint buckets, one record on the upper edge of the first and so counted
\* in the second alone, one record on the upper edge of the second and so counted
\* nowhere
C11_Witness ==
  /\ pc = "histogram_done" /\ Len(hret) = 1
  /\ hargs.key = "margin_pct" /\ hargs.bins = <<<<0, 50>>, <<50, 100>>>>
  /\ Len(results) = 2
  /\ results[1].margin_pct = 500 /\ results[2].margin_pct = 1000
  /\ hret[1][<<0, 50>>] = 0 /\ hret[1][<<50, 100>>] = 1

\* C12: whenever total_votes > 0, margin > 0 and a structure has at least one
\* batch, the sample count calc_sample_counts returns for it is at least
\* min(3, max_samples), max_samples being batch_count - 1 above one batch and
\* batch_count otherwise: never 0, and 1 for a single batch.
C12_AtLeastThree ==
  (CalcReturned /\ args.total_votes > 0 /\ args.margin > 0) =>
    /\ args.pm_batch_count >= 1 =>
         /\ ret[1].pm_samples >=
              Min(3, IF args.pm_batch_count > 1 THEN args.pm_batch_count - 1
                     ELSE args.pm_batch_count)
         /\ ret[1].pm_samples > 0
         /\ args.pm_batch_count = 1 => ret[1].pm_samples = 1
    /\ args.tv_batch_count >= 1 =>
         /\ ret[1].tv_samples >=
              Min(3, IF args.tv_batch_count > 1 THEN args.tv_batch_count - 1
                     ELSE args.tv_batch_count)
         /\ ret[1].tv_samples > 0
         /\ args.tv_batch_count = 1 => ret[1].tv_samples = 1

\* a single PM batch fully verified next to a TV structure that is sampled at
\* exactly 3, below its cap
C12_Witness ==
  /\ CalcReturned /\ args.total_votes > 0 /\ args.margin > 0
  /\ args.pm_batch_count = 1 /\ ret[1].pm_samples = 1
  /\ args.tv_batch_count >= 5 /\ ret[1].tv_samples = 3

====
